---- MODULE Spec2Model ----
(***************************************************************************)
(* PDF chatbot: the corpus pipeline of pdf_processor.py (PDFProcessor) and *)
(* the session state machine of chatbot.py (Streamlit handlers of main()). *)
(*                                                                         *)
(* State: the persisted Chroma collection at persist_directory, the four   *)
(* st.session_state fields, and records of the last pipeline call and the  *)
(* last chain invocation (history variables written by the actions).       *)
(***************************************************************************)
EXTENDS Integers, Sequences, FiniteSets, TLC

VARIABLES
    store,          \* the persist_directory "./chroma_db" on disk
    messages,       \* st.session_state.messages
    vector_store,   \* st.session_state.vector_store
    chain,          \* st.session_state.chain (with its ConversationBufferMemory)
    pdf_processed,  \* st.session_state.pdf_processed
    lastOp,         \* which handler ran last
    lastProcess,    \* what the process_pdf call of the last step did, if it made one
    lastInvoke,     \* what the chain.invoke call of the last step was given and returned
    work            \* one run of text extraction and splitting: its input and results

vars == <<store, messages, vector_store, chain, pdf_processed,
          lastOp, lastProcess, lastInvoke, work>>

---------------------------------------------------------------------------
(* Bounds and program constants *)

\* Longest transcript explored (turns).
MaxTurns == 4
\* Most entries the persisted collection may hold.
MaxEntries == 4
\* Chunks added to the collection per embedding batch.
BatchSize == 2
\* search_kwargs={"k": 3}
RetrievalK == 3

---------------------------------------------------------------------------
(* Environment: the PDF files, what the splitter yields for them, the       *)
(* questions and the similarity of a question to a chunk's content.         *)

\* Paths typed into the "PDF File Path" box; "missing.pdf" is not on disk.
PdfPaths == {"A.pdf", "B.pdf", "missing.pdf"}
ExistingPdfs == {"A.pdf", "B.pdf"}
ApiKeys == {"", "sk-key"}
ModelNames == {"gpt-3.5-turbo", "gpt-4"}
Questions == {"q1", "q2"}
Answers == {"answer"}
InvokeErrors == {"EmbeddingError", "GenerationError"}

\* os.path.exists(pdf_path)
PathExists(p) == p \in ExistingPdfs

\* The chunk contents of each PDF, in chunk order (B.pdf repeats a chunk).
PdfChunks(p) ==
    IF p = "A.pdf" THEN <<"alpha", "beta">>
    ELSE <<"beta", "beta", "gamma">>

\* Similarity of a question's embedding to a chunk's embedding.
Similarity(q, c) ==
    IF q = "q1"
    THEN (IF c = "alpha" THEN 3 ELSE IF c = "beta" THEN 2 ELSE 1)
    ELSE (IF c = "gamma" THEN 3 ELSE 2)

---------------------------------------------------------------------------
(* The persisted collection *)

\* An entry is one stored (chunk, vector) pair; ord is the chunk's position
\* in the document it was split from.
Entry(p, i) == [doc |-> p, ord |-> i, content |-> PdfChunks(p)[i]]

AbsentStore == [exists |-> FALSE, corrupt |-> FALSE, entries |-> <<>>]

\* The Document list built from a PDF: one per chunk, in order.
CreateDocuments(p) == [i \in 1..Len(PdfChunks(p)) |-> Entry(p, i)]

NoIndex == [present |-> FALSE, via |-> "none", doc |-> "none"]
IndexHandle(how, p) == [present |-> TRUE, via |-> how, doc |-> p]

\* No embedding failure during a build.
NoFail == 0 - 1

\* Number of batches needed for n documents.
NumBatches(n) == (n + BatchSize - 1) \div BatchSize

Min(a, b) == IF a < b THEN a ELSE b

\* Chroma(persist_directory=...): opening the client on the directory.
\* It creates the directory and an empty collection when there is none,
\* and raises when the files there cannot be read.
ChromaOpen(st) ==
    IF st.exists /\ st.corrupt
    THEN [ok |-> FALSE, store |-> st]
    ELSE [ok |-> TRUE,
          store |-> [exists |-> TRUE, corrupt |-> FALSE, entries |-> st.entries]]

\* load_vector_store: FileNotFoundError when the directory is missing,
\* otherwise the Chroma constructor on it; ioErr is a failure of that
\* constructor that does not come from the files (a transient fault).
LoadVectorStore(st, p, ioErr) ==
    IF st.exists
    THEN IF ioErr THEN [outcome |-> "StorageError", index |-> NoIndex]
         ELSE IF ChromaOpen(st).ok
              THEN [outcome |-> "ok", index |-> IndexHandle("load", p)]
              ELSE [outcome |-> "IndexCorruptError", index |-> NoIndex]
    ELSE [outcome |-> "NotFoundError", index |-> NoIndex]

\* create_vector_store: Chroma.from_documents opens the same directory with
\* the same constructor, then embeds and adds the documents batch by batch
\* to the collection that is there; failAfter is the number of batches
\* added before the embedding call fails (NoFail: none fails).
CreateVectorStore(st, p, documents, failAfter) ==
    LET opened == ChromaOpen(st)
        n      == Len(documents)
        kept   == IF failAfter = NoFail THEN n ELSE Min(n, failAfter * BatchSize)
    IN  IF ~opened.ok
        THEN [store |-> st, outcome |-> "IndexCorruptError", index |-> NoIndex,
              embedded |-> 0]
        ELSE [store |-> [opened.store EXCEPT
                           !.entries = @ \o SubSeq(documents, 1, kept)],
              outcome |-> IF failAfter = NoFail THEN "ok" ELSE "EmbeddingError",
              index |-> IF failAfter = NoFail THEN IndexHandle("build", p) ELSE NoIndex,
              embedded |-> kept]

\* The reuse test of line 82 without its force_reprocess part.
ShouldLoad_IgnoresForce(st, force) == st.exists

\* Line 82: not force_reprocess and os.path.exists(self.persist_directory).
ShouldLoad(st, force) == ~force /\ st.exists

\* process_pdf. The result carries what the call did:
\* loadTried/loadOutcome (lines 82-86), extracted/split (lines 89-90),
\* embedded (chunks embedded by line 91).
ProcessPdf(st, p, force, ioErr, extractErr, failAfter) ==
    LET tryLoad == ShouldLoad(st, force)
        ld      == LoadVectorStore(st, p, ioErr)
        built   == CreateVectorStore(st, p, CreateDocuments(p), failAfter)
        base    == [doc |-> p, force |-> force, existed |-> st.exists,
                    before |-> st,
                    loadTried |-> tryLoad,
                    loadOutcome |-> IF tryLoad THEN ld.outcome ELSE "none"]
    IN  IF tryLoad /\ ld.outcome = "ok"
        THEN [store |-> st, outcome |-> "ok", index |-> ld.index,
              info |-> base @@ [extracted |-> FALSE, split |-> FALSE, embedded |-> 0]]
        ELSE IF extractErr
        THEN [store |-> st, outcome |-> "ExtractionError", index |-> NoIndex,
              info |-> base @@ [extracted |-> TRUE, split |-> FALSE, embedded |-> 0]]
        ELSE [store |-> built.store, outcome |-> built.outcome, index |-> built.index,
              info |-> base @@ [extracted |-> TRUE, split |-> TRUE,
                                embedded |-> built.embedded]]

---------------------------------------------------------------------------
(* The conversation engine: ConversationalRetrievalChain with its memory *)

NoChain == [present |-> FALSE, index |-> NoIndex, k |-> 0, model |-> "none",
            memory |-> <<>>]

\* A chain whose retriever asks for two results.
NewChain_TwoResults(index, model_name) ==
    [present |-> TRUE, index |-> index, k |-> 2, model |-> model_name,
     memory |-> <<>>]

\* Lines 44-67: a new chain over the index, with an empty
\* ConversationBufferMemory and a similarity retriever with k = 3.
NewChain(index, model_name) ==
    [present |-> TRUE, index |-> index, k |-> RetrievalK, model |-> model_name,
     memory |-> <<>>]

Positions(entries) == 1..Len(entries)

\* The similarity search of the retriever: every answer the collection may
\* give for question q. A result is a sequence of distinct positions of the
\* collection, Min(k, n) long, by non-increasing similarity, holding the
\* k most similar entries; the order among equally similar entries is
\* whatever the index returns.
SimilaritySearch(entries, q, k) ==
    LET n == Len(entries)
        m == Min(k, n)
    IN  { r \in [1..m -> Positions(entries)] :
            /\ \A i, j \in 1..m : i # j => r[i] # r[j]
            /\ \A i \in 1..m : \A j \in 1..m :
                 i < j => Similarity(q, entries[r[i]].content)
                            >= Similarity(q, entries[r[j]].content)
            /\ \A x \in Positions(entries) :
                 (\A i \in 1..m : r[i] # x) =>
                    \A i \in 1..m : Similarity(q, entries[x].content)
                                      <= Similarity(q, entries[r[i]].content) }

\* response.get("source_documents", []): the retrieved chunks, in order.
SourceDocuments(entries, hits) == [i \in 1..Len(hits) |-> entries[hits[i]]]

\* A chain that saves the exchange to its memory even when the call fails.
ChainInvoke_SavesOnError(ch, st, q, err, ans, hits) ==
    IF ~ch.present
    THEN [ok |-> FALSE, error |-> "AttributeError", chain |-> ch,
          history |-> <<>>, hits |-> <<>>, sources |-> <<>>, answer |-> "none"]
    ELSE IF err # "none"
    THEN [ok |-> FALSE, error |-> err,
          chain |-> [ch EXCEPT !.memory =
                        Append(@, [question |-> q, answer |-> "none"])],
          history |-> ch.memory, hits |-> <<>>, sources |-> <<>>, answer |-> "none"]
    ELSE [ok |-> TRUE, error |-> "none",
          chain |-> [ch EXCEPT !.memory =
                        Append(@, [question |-> q, answer |-> ans])],
          history |-> ch.memory, hits |-> hits,
          sources |-> SourceDocuments(st.entries, hits), answer |-> ans]

\* chain.invoke({"question": q}) (line 169). Only the question is passed:
\* the history of the prompt is the chain's own memory. err is the failure
\* of the embedding or generation call ("none": no failure); on success the
\* memory saves the exchange.
ChainInvoke(ch, st, q, err, ans, hits) ==
    IF ~ch.present
    THEN [ok |-> FALSE, error |-> "AttributeError", chain |-> ch,
          history |-> <<>>, hits |-> <<>>, sources |-> <<>>, answer |-> "none"]
    ELSE IF err # "none"
    THEN [ok |-> FALSE, error |-> err, chain |-> ch,
          history |-> ch.memory, hits |-> <<>>, sources |-> <<>>, answer |-> "none"]
    ELSE [ok |-> TRUE, error |-> "none",
          chain |-> [ch EXCEPT !.memory =
                        Append(@, [question |-> q, answer |-> ans])],
          history |-> ch.memory, hits |-> hits,
          sources |-> SourceDocuments(st.entries, hits), answer |-> ans]

---------------------------------------------------------------------------
(* Session state and the handlers of main() *)

Session == [messages |-> messages, vector_store |-> vector_store,
            chain |-> chain, pdf_processed |-> pdf_processed]

\* Lines 25-32.
InitialSession == [messages |-> <<>>, vector_store |-> NoIndex,
                   chain |-> NoChain, pdf_processed |-> FALSE]

UserTurn(q) == [role |-> "user", content |-> q]
AnswerTurn(ans, sources) ==
    [role |-> "assistant", content |-> ans, sources |-> sources]

\* f"Error: {str(e)}"
ErrorMsg(e) == <<"Error: ", e>>
ErrorTurn(e) == [role |-> "assistant", content |-> ErrorMsg(e)]

\* initialize_chatbot storing the index and the ready flag as soon as the
\* pipeline returns, before the LLM and the chain are constructed.
InitializeChatbot_ReadyBeforeChain(sess, st, api_key, pdf_path, model_name, f) ==
    LET r == ProcessPdf(st, pdf_path, FALSE, f.ioErr, f.extractErr, f.failAfter)
    IN  IF r.outcome = "ok" /\ ~f.chainErr
        THEN [ok |-> TRUE, store |-> r.store, process |-> r,
              sess |-> [sess EXCEPT !.vector_store = r.index,
                                    !.chain = NewChain(r.index, model_name),
                                    !.pdf_processed = TRUE]]
        ELSE IF r.outcome = "ok"
        THEN [ok |-> FALSE, store |-> r.store, process |-> r,
              sess |-> [sess EXCEPT !.vector_store = r.index,
                                    !.pdf_processed = TRUE]]
        ELSE [ok |-> FALSE, store |-> r.store, process |-> r, sess |-> sess]

\* initialize_chatbot; f is the fault scenario of the run (see
\* FaultScenarios). The three session fields are assigned only after the
\* pipeline and the chain construction succeeded; any exception is caught,
\* reported and leaves the session as it was on entry.
InitializeChatbot(sess, st, api_key, pdf_path, model_name, f) ==
    LET r == ProcessPdf(st, pdf_path, FALSE, f.ioErr, f.extractErr, f.failAfter)
    IN  IF r.outcome = "ok" /\ ~f.chainErr
        THEN [ok |-> TRUE, store |-> r.store, process |-> r,
              sess |-> [sess EXCEPT !.vector_store = r.index,
                                    !.chain = NewChain(r.index, model_name),
                                    !.pdf_processed = TRUE]]
        ELSE [ok |-> FALSE, store |-> r.store, process |-> r, sess |-> sess]

\* The reset without line 118.
ResetForInitialize_KeepsReady(sess) == [sess EXCEPT !.messages = <<>>]

\* Lines 117-118.
ResetForInitialize(sess) ==
    [sess EXCEPT !.messages = <<>>, !.pdf_processed = FALSE]

\* The button with the reset of lines 117-118 placed before the validation.
ClickInitialize_ResetsFirst(sess, st, api_key, pdf_path, model_name, f) ==
    IF api_key = "" \/ ~PathExists(pdf_path)
    THEN [op |-> "init_invalid", sess |-> ResetForInitialize(sess), store |-> st,
          ran |-> FALSE,
          process |-> ProcessPdf(st, pdf_path, FALSE, f.ioErr, f.extractErr,
                                 f.failAfter)]
    ELSE LET r == InitializeChatbot(ResetForInitialize(sess), st, api_key, pdf_path,
                                    model_name, f)
         IN  [op |-> IF r.ok THEN "init_ok" ELSE "init_fail",
              sess |-> r.sess, store |-> r.store, ran |-> TRUE,
              process |-> r.process]

\* The "Initialize/Reload Chatbot" button, lines 111-120.
ClickInitialize(sess, st, api_key, pdf_path, model_name, f) ==
    IF api_key = "" \/ ~PathExists(pdf_path)
    THEN [op |-> "init_invalid", sess |-> sess, store |-> st, ran |-> FALSE,
          process |-> ProcessPdf(st, pdf_path, FALSE, f.ioErr, f.extractErr,
                                 f.failAfter)]
    ELSE LET r == InitializeChatbot(ResetForInitialize(sess), st, api_key, pdf_path,
                                    model_name, f)
         IN  [op |-> IF r.ok THEN "init_ok" ELSE "init_fail",
              sess |-> r.sess, store |-> r.store, ran |-> TRUE,
              process |-> r.process]

\* Clear Chat History that also drops the ready flag.
ClickClear_AlsoUnready(sess) ==
    [sess EXCEPT !.messages = <<>>, !.pdf_processed = FALSE,
                 !.chain = IF @.present THEN [@ EXCEPT !.memory = <<>>] ELSE @]

\* Clear Chat History without chain.memory.clear().
ClickClear_KeepsMemory(sess) == [sess EXCEPT !.messages = <<>>]

\* The "Clear Chat History" button, lines 131-135.
ClickClear(sess) ==
    [sess EXCEPT !.messages = <<>>,
                 !.chain = IF @.present THEN [@ EXCEPT !.memory = <<>>] ELSE @]

\* Lines 161 and 182-186: the user turn, then the answer with its sources.
RecordAnswer(msgs, q, ans, sources) ==
    Append(Append(msgs, UserTurn(q)), AnswerTurn(ans, sources))

\* The error turn assigned as the whole transcript instead of appended.
RecordError_Overwrites(msgs, q, e) == <<UserTurn(q), ErrorTurn(e)>>

\* The error shown but not recorded as a turn.
RecordError_NotRecorded(msgs, q, e) == Append(msgs, UserTurn(q))

\* Lines 161 and 187-193: the user turn, then the error as an assistant turn.
RecordError(msgs, q, e) ==
    Append(Append(msgs, UserTurn(q)), ErrorTurn(e))

\* The chat input dropping the engine when its call fails.
ChatInput_ErrorDropsEngine(sess, st, q, err, ans, hits) ==
    LET r == ChainInvoke(sess.chain, st, q, err, ans, hits)
    IN  IF r.ok
        THEN [sess EXCEPT !.messages = RecordAnswer(@, q, r.answer, r.sources),
                          !.chain = r.chain]
        ELSE [sess EXCEPT !.messages = RecordError(@, q, r.error),
                          !.chain = NoChain]

\* The chat input, lines 159-193; reached only in the else branch of line 138.
\* The session holds the chain object itself, so whatever the call did to the
\* chain's memory is the session's chain afterwards, on either branch.
ChatInput(sess, st, q, err, ans, hits) ==
    LET r == ChainInvoke(sess.chain, st, q, err, ans, hits)
    IN  IF r.ok
        THEN [sess EXCEPT !.messages = RecordAnswer(@, q, r.answer, r.sources),
                          !.chain = r.chain]
        ELSE [sess EXCEPT !.messages = RecordError(@, q, r.error),
                          !.chain = r.chain]

---------------------------------------------------------------------------
(* Text extraction: extract_text_from_pdf. A text is a sequence of          *)
(* characters; a PDF is the sequence of its pages' texts.                    *)

\* Most pages of a PDF, and most characters of a page.
MaxPages == 2
MaxPageLen == 2

PageChars == {"a", " "}

Digit(d) ==
    CASE d = 0 -> "0" [] d = 1 -> "1" [] d = 2 -> "2" [] d = 3 -> "3" [] d = 4 -> "4"
      [] d = 5 -> "5" [] d = 6 -> "6" [] d = 7 -> "7" [] d = 8 -> "8" [] d = 9 -> "9"

\* str(n) for n >= 0.
RECURSIVE Decimal(_)
Decimal(n) == IF n < 10 THEN <<Digit(n)>> ELSE Append(Decimal(n \div 10), Digit(n % 10))

\* The marker numbered with the zero-based page index.
PageMarker_ZeroBased(page_num) ==
    <<"\n", "-", "-", "-", " ", "P", "a", "g", "e", " ">>
        \o Decimal(page_num) \o <<" ", "-", "-", "-", "\n">>

\* f"\n--- Page {page_num + 1} ---\n" (line 31); page_num is zero-based.
PageMarker(page_num) ==
    <<"\n", "-", "-", "-", " ", "P", "a", "g", "e", " ">>
        \o Decimal(page_num + 1) \o <<" ", "-", "-", "-", "\n">>

\* The loop of lines 30-32 from page index page_num on, text being the
\* text built so far.
RECURSIVE ExtractPages(_, _, _)
ExtractPages(pages, page_num, text) ==
    IF page_num >= Len(pages) THEN text
    ELSE ExtractPages(pages, page_num + 1,
                      (text \o PageMarker(page_num)) \o pages[page_num + 1])

\* extract_text_from_pdf: text = "" and the loop over enumerate(reader.pages).
ExtractTextFromPdf(pages) == ExtractPages(pages, 0, <<>>)

NoWork == [phase |-> "none", pages |-> <<>>, text |-> <<>>, chunks |-> <<>>]

---------------------------------------------------------------------------
(* Chunking: create_documents with the RecursiveCharacterTextSplitter of    *)
(* __init__ (separators "\n\n", "\n", " ", "", separators kept at the start  *)
(* of a split, chunks stripped of surrounding whitespace).                   *)

\* chunk_size and chunk_overlap, scaled down from 1000 and 200.
ChunkSize == 4
ChunkOverlap == 1
\* Longest text split on its own.
MaxTextLen == 6

TextChars == {"a", "b", " ", "\n"}
Whitespace == {" ", "\n"}

\* The default separators of the splitter, tried in this order.
Separators == << <<"\n", "\n">>, <<"\n">>, <<" ">>, <<>> >>

MatchesAt(text, sep, pos) ==
    /\ pos + Len(sep) - 1 <= Len(text)
    /\ SubSeq(text, pos, pos + Len(sep) - 1) = sep

\* re.search(separator, text) for a non-empty literal separator.
Contains(text, sep) == \E pos \in 1..Len(text) : MatchesAt(text, sep, pos)

\* re.split with the separator captured, each separator glued to the front
\* of the piece that follows it: the text is cut at the start of every
\* match, scanning from pos; piece is the piece being read.
RECURSIVE CutAtMatches(_, _, _, _)
CutAtMatches(text, sep, pos, piece) ==
    IF pos > Len(text) THEN <<piece>>
    ELSE IF MatchesAt(text, sep, pos)
         THEN <<piece>> \o CutAtMatches(text, sep, pos + Len(sep), sep)
         ELSE CutAtMatches(text, sep, pos + 1, Append(piece, text[pos]))

NonEmpty(piece) == piece # <<>>

\* _split_text_with_regex with keep_separator: list(text) for the empty
\* separator; empty pieces are dropped.
SplitWithSeparator(text, sep) ==
    IF sep = <<>>
    THEN [i \in 1..Len(text) |-> <<text[i]>>]
    ELSE SelectSeq(CutAtMatches(text, sep, 1, <<>>), NonEmpty)

RECURSIVE LStrip(_)
LStrip(t) == IF t # <<>> /\ Head(t) \in Whitespace THEN LStrip(Tail(t)) ELSE t

RECURSIVE RStrip(_)
RStrip(t) ==
    IF t # <<>> /\ t[Len(t)] \in Whitespace THEN RStrip(SubSeq(t, 1, Len(t) - 1)) ELSE t

\* str.strip()
Strip(t) == RStrip(LStrip(t))

\* separator.join(docs)
RECURSIVE Join(_, _)
Join(docs, sep) ==
    IF docs = <<>> THEN <<>>
    ELSE IF Len(docs) = 1 THEN docs[1]
    ELSE (docs[1] \o sep) \o Join(Tail(docs), sep)

\* _join_docs joined without stripping.
JoinDocs_NoStrip(docs, sep) ==
    LET text == Join(docs, sep)
    IN  IF text = <<>> THEN <<>> ELSE <<text>>

\* _join_docs: the joined, stripped text as a one-element list, or nothing
\* when it is empty.
JoinDocs(docs, sep) ==
    LET text == Strip(Join(docs, sep))
    IN  IF text = <<>> THEN <<>> ELSE <<text>>

SepCost(sep, doc, more) == IF Len(doc) > more THEN Len(sep) ELSE 0

\* The while loop of _merge_splits: drop splits from the front of the
\* current window until it is within the overlap and the next split fits.
RECURSIVE PopFront(_, _, _, _)
PopFront(cur, total, len, sep) ==
    IF \/ total > ChunkOverlap
       \/ (total + len + SepCost(sep, cur, 0) > ChunkSize /\ total > 0)
    THEN PopFront(Tail(cur), total - (Len(Head(cur)) + SepCost(sep, cur, 1)), len, sep)
    ELSE [cur |-> cur, total |-> total]

\* _merge_splits from split i on: docs are the chunks emitted so far, cur
\* the current window of splits and total its length.
RECURSIVE MergeFrom(_, _, _, _, _, _)
MergeFrom(splits, i, docs, cur, total, sep) ==
    IF i > Len(splits) THEN docs \o JoinDocs(cur, sep)
    ELSE LET d      == splits[i]
             full   == total + Len(d) + SepCost(sep, cur, 0) > ChunkSize
             emit   == full /\ Len(cur) > 0
             popped == IF emit THEN PopFront(cur, total, Len(d), sep)
                               ELSE [cur |-> cur, total |-> total]
             cur2   == Append(popped.cur, d)
         IN  MergeFrom(splits, i + 1,
                       IF emit THEN docs \o JoinDocs(cur, sep) ELSE docs,
                       cur2,
                       popped.total + Len(d) + SepCost(sep, cur2, 1),
                       sep)

MergeSplits(splits, sep) == MergeFrom(splits, 1, <<>>, <<>>, 0, sep)

\* The index of the separator _split_text picks: the first that is empty or
\* occurs in the text (the last one when none does).
RECURSIVE PickSeparator(_, _, _)
PickSeparator(text, seps, i) ==
    IF i >= Len(seps) \/ seps[i] = <<>> \/ Contains(text, seps[i]) THEN i
    ELSE PickSeparator(text, seps, i + 1)

\* _split_text: split on the picked separator, merge runs of splits shorter
\* than chunk_size, and split the others again with the later separators.
RECURSIVE SplitTextWith(_, _)
RECURSIVE SplitLoop(_, _, _, _, _)
SplitLoop(splits, i, good, final, newSeps) ==
    IF i > Len(splits)
    THEN IF good # <<>> THEN final \o MergeSplits(good, <<>>) ELSE final
    ELSE IF Len(splits[i]) < ChunkSize
    THEN SplitLoop(splits, i + 1, Append(good, splits[i]), final, newSeps)
    ELSE LET flushed == IF good # <<>> THEN final \o MergeSplits(good, <<>>) ELSE final
         IN  SplitLoop(splits, i + 1, <<>>,
                       flushed \o (IF newSeps = <<>> THEN <<splits[i]>>
                                   ELSE SplitTextWith(splits[i], newSeps)),
                       newSeps)

SplitTextWith(text, seps) ==
    LET k       == PickSeparator(text, seps, 1)
        sep     == seps[k]
        newSeps == IF sep # <<>> /\ Contains(text, sep)
                   THEN SubSeq(seps, k + 1, Len(seps)) ELSE <<>>
    IN  SplitLoop(SplitWithSeparator(text, sep), 1, <<>>, <<>>, newSeps)

\* text_splitter.split_text(text) (line 39).
SplitText(text) == SplitTextWith(text, Separators)

---------------------------------------------------------------------------
(* The state machine *)

NoProcess ==
    [called |-> FALSE, outcome |-> "none", index |-> NoIndex, after |-> AbsentStore,
     info |-> [doc |-> "none", force |-> FALSE, existed |-> FALSE,
               before |-> AbsentStore, loadTried |-> FALSE, loadOutcome |-> "none",
               extracted |-> FALSE, split |-> FALSE, embedded |-> 0]]

ProcessRecord(r) ==
    [called |-> TRUE, outcome |-> r.outcome, index |-> r.index, after |-> r.store,
     info |-> r.info]

NoInvoke ==
    [called |-> FALSE, question |-> "none", transcript |-> <<>>, history |-> <<>>,
     ok |-> FALSE, error |-> "none", hits |-> <<>>, sources |-> <<>>,
     answer |-> "none", stored |-> <<>>]

\* A directory left at the location that Chroma cannot read.
CorruptStore == [exists |-> TRUE, corrupt |-> TRUE, entries |-> <<>>]

\* The embedding failures a build of p can meet: none, or after 0, 1, ...
\* complete batches.
FailPoints(p) == {NoFail} \cup (0..(NumBatches(Len(PdfChunks(p))) - 1))

Init ==
    /\ store \in {AbsentStore, CorruptStore}
    /\ messages = InitialSession.messages
    /\ vector_store = InitialSession.vector_store
    /\ chain = InitialSession.chain
    /\ pdf_processed = InitialSession.pdf_processed
    /\ lastOp = "none"
    /\ lastProcess = NoProcess
    /\ lastInvoke = NoInvoke
    /\ work = NoWork

SetSession(sess) ==
    /\ messages' = sess.messages
    /\ vector_store' = sess.vector_store
    /\ chain' = sess.chain
    /\ pdf_processed' = sess.pdf_processed

\* The faults one pipeline run can meet, without the combinations that the
\* first failure makes unobservable: a fault of the load, then at most one
\* of an extraction failure, an embedding failure and (for the chat session)
\* a failure constructing the LLM or the chain.
FaultScenarios(p, withChain) ==
    { f \in [ioErr : BOOLEAN, extractErr : BOOLEAN, failAfter : FailPoints(p),
             chainErr : BOOLEAN] :
        /\ f.extractErr => (f.failAfter = NoFail /\ ~f.chainErr)
        /\ f.failAfter # NoFail => ~f.chainErr
        /\ f.chainErr => withChain }

NoFault == [ioErr |-> FALSE, extractErr |-> FALSE, failAfter |-> NoFail,
            chainErr |-> FALSE]

\* The user clicks "Initialize/Reload Chatbot".
Initialize ==
    \E api_key \in ApiKeys, pdf_path \in PdfPaths, model_name \in ModelNames :
      \E f \in IF api_key = "" \/ ~PathExists(pdf_path)
               THEN {NoFault} ELSE FaultScenarios(pdf_path, TRUE) :
        \E r \in {ClickInitialize(Session, store, api_key, pdf_path, model_name, f)} :
            /\ Len(r.store.entries) <= MaxEntries
            /\ SetSession(r.sess)
            /\ store' = r.store
            /\ lastOp' = r.op
            /\ lastProcess' = IF r.ran THEN ProcessRecord(r.process) ELSE NoProcess
            /\ lastInvoke' = NoInvoke
            /\ UNCHANGED work

\* The user clicks "Clear Chat History".
ClearChat ==
    /\ \E sess \in {ClickClear(Session)} : SetSession(sess)
    /\ lastOp' = "clear"
    /\ lastProcess' = NoProcess
    /\ lastInvoke' = NoInvoke
    /\ UNCHANGED <<store, work>>

\* The user submits a question in the chat input; limit is the longest
\* transcript explored.
AskWithin(limit) ==
    /\ pdf_processed
    /\ Len(messages) + 2 <= limit
    /\ \E q \in Questions, err \in InvokeErrors \cup {"none"}, ans \in Answers :
         \E hits \in SimilaritySearch(store.entries, q, chain.k) :
           \E r \in {ChainInvoke(chain, store, q, err, ans, hits)},
              sess \in {ChatInput(Session, store, q, err, ans, hits)} :
               /\ SetSession(sess)
               /\ lastOp' = IF r.ok THEN "ask_ok" ELSE "ask_fail"
               /\ lastInvoke' =
                    [called |-> TRUE, question |-> q, transcript |-> messages,
                     history |-> r.history, ok |-> r.ok, error |-> r.error,
                     hits |-> r.hits, sources |-> r.sources,
                     answer |-> r.answer, stored |-> store.entries]
               /\ lastProcess' = NoProcess
               /\ UNCHANGED <<store, work>>

Ask == AskWithin(MaxTurns)

\* PDFProcessor(pdf_path).process_pdf(api_key, force_reprocess) called
\* directly on the module, outside the chat session.
\* Explored between conversations (while the transcript is empty).
ProcessCall ==
    \E pdf_path \in {p \in ExistingPdfs : messages = <<>>}, force \in BOOLEAN :
      \E f \in FaultScenarios(pdf_path, FALSE) :
        \E r \in {ProcessPdf(store, pdf_path, force, f.ioErr, f.extractErr,
                             f.failAfter)} :
            /\ Len(r.store.entries) <= MaxEntries
            /\ store' = r.store
            /\ lastOp' = "process"
            /\ lastProcess' = ProcessRecord(r)
            /\ lastInvoke' = NoInvoke
            /\ UNCHANGED <<messages, vector_store, chain, pdf_processed, work>>

Next == Initialize \/ ClearChat \/ Ask \/ ProcessCall

Spec == Init /\ [][Next]_vars

---------------------------------------------------------------------------
(* Corpus pipeline: reuse or rebuild *)

LoadFailed(lp) == lp.info.loadTried /\ lp.info.loadOutcome # "ok"

\* C1: when process_pdf runs without force on an existing location and the
\* load fails, the caller does not see a load error: the rebuild runs and the
\* call never ends in NotFoundError or IndexCorruptError.
C1_LoadErrorNeverSurfaces ==
    (lastProcess.called /\ LoadFailed(lastProcess)) =>
        /\ lastProcess.info.extracted
        /\ lastProcess.outcome \notin {"NotFoundError", "IndexCorruptError"}

\* C2: without force, a readable index at the location is returned as
\* loaded, with no extraction, no chunking and no embedding in that call and
\* the location untouched; with force, the load is never tried and the
\* rebuild always starts.
C2_ReuseWithoutWorkForceRebuilds ==
    lastProcess.called =>
        /\ (/\ ~lastProcess.info.force
            /\ lastProcess.info.before.exists
            /\ ~lastProcess.info.before.corrupt
            /\ lastProcess.info.loadOutcome # "StorageError")
           => /\ lastProcess.outcome = "ok"
              /\ lastProcess.index = IndexHandle("load", lastProcess.info.doc)
              /\ ~lastProcess.info.extracted
              /\ ~lastProcess.info.split
              /\ lastProcess.info.embedded = 0
              /\ lastProcess.after = lastProcess.info.before
        /\ lastProcess.info.force
           => /\ ~lastProcess.info.loadTried
              /\ lastProcess.info.extracted
              /\ lastProcess.index.via # "load"
              /\ (lastProcess.outcome = "ok" =>
                    /\ lastProcess.info.split
                    /\ lastProcess.info.embedded
                         = Len(PdfChunks(lastProcess.info.doc)))

\* A reuse of a populated index, seen by a call without force.
C2_Witness ==
    /\ lastProcess.called
    /\ ~lastProcess.info.force
    /\ lastProcess.index.via = "load"
    /\ Len(lastProcess.info.before.entries) > 0

\* C4: when the index at the location was built from another document than
\* the one process_pdf is called for, the call builds a new index instead of
\* returning the persisted one.
C4_OtherDocumentIsRebuilt ==
    (/\ lastProcess.called
     /\ lastProcess.outcome = "ok"
     /\ \E i \in 1..Len(lastProcess.info.before.entries) :
          lastProcess.info.before.entries[i].doc # lastProcess.info.doc)
    => lastProcess.index.via = "build"

\* C5: a build is atomic at the location: a process_pdf call that fails
\* leaves the location exactly as it was before the call.
C5_FailedBuildLeavesLocation ==
    (lastProcess.called /\ lastProcess.outcome # "ok")
    => lastProcess.after = lastProcess.info.before

---------------------------------------------------------------------------
(* Session state and the question-answer turn *)

IsPrefix(a, b) == Len(a) <= Len(b) /\ SubSeq(b, 1, Len(a)) = a

Answered(turn) == "sources" \in DOMAIN turn

\* The (question, answer) pairs of the answered questions of a transcript,
\* in order.
RECURSIVE Exchanges(_)
Exchanges(msgs) ==
    IF Len(msgs) < 2 THEN <<>>
    ELSE LET n    == Len(msgs)
             rest == Exchanges(SubSeq(msgs, 1, n - 2))
         IN  IF Answered(msgs[n])
             THEN Append(rest, [question |-> msgs[n - 1].content,
                                answer |-> msgs[n].content])
             ELSE rest

\* C3: a failed engine call is recorded as exactly one assistant turn holding
\* the error description, right after the user's question; index, engine
\* and ready flag are unchanged, and the session still accepts questions.
C3_FailedTurnIsRecorded ==
    [][lastOp' = "ask_fail" =>
         /\ messages' = messages \o
              <<UserTurn(lastInvoke'.question),
                [role |-> "assistant", content |-> ErrorMsg(lastInvoke'.error)]>>
         /\ lastInvoke'.error # "none"
         /\ UNCHANGED <<vector_store, chain, pdf_processed>>
         /\ pdf_processed']_vars

\* A question answered right after a failed one.
C3_Witness ==
    /\ lastOp = "ask_ok"
    /\ Len(messages) = 4
    /\ ~Answered(messages[2])
    /\ Answered(messages[4])

\* C6 as stated: every reset (the one of Initialize/Reload and Clear Chat
\* History) empties the transcript and sets ready to false.
C6_ResetSetsNotReady ==
    lastOp \in {"clear", "init_fail"} => (messages = <<>> /\ ~pdf_processed)

\* C6 amended: the reset of Initialize/Reload empties the transcript and sets
\* ready to false, which is what a failed initialization leaves; Clear Chat
\* History empties the transcript and leaves ready and the index as they
\* are; activate sets index, engine and ready = TRUE; recording a turn
\* appends it as the last element and changes no other session field.
C6_SessionOperations ==
    [][/\ lastOp' = "init_fail" =>
            /\ messages' = <<>> /\ ~pdf_processed'
            /\ UNCHANGED <<vector_store, chain>>
       /\ lastOp' = "clear" =>
            /\ messages' = <<>>
            /\ UNCHANGED <<vector_store, pdf_processed>>
       /\ lastOp' = "init_ok" =>
            /\ messages' = <<>>
            /\ vector_store' = lastProcess'.index /\ vector_store'.present
            /\ chain'.present /\ chain'.index = vector_store'
            /\ pdf_processed'
       /\ lastOp' \in {"ask_ok", "ask_fail"} =>
            /\ Len(messages') = Len(messages) + 2
            /\ SubSeq(messages', 1, Len(messages)) = messages
            /\ messages'[Len(messages')].role = "assistant"
            /\ UNCHANGED <<vector_store, pdf_processed>>]_vars

\* Clear Chat History on a ready session: the transcript is empty and the
\* session is still ready.
C6_Witness ==
    /\ lastOp = "clear"
    /\ messages = <<>>
    /\ pdf_processed
    /\ vector_store.present

\* C7: the transcript is append-only: a step either extends it or, on
\* Initialize/Reload or Clear Chat History, empties it.
C7_TranscriptAppendOnly ==
    [][\/ IsPrefix(messages, messages')
       \/ (messages' = <<>> /\ lastOp' \in {"init_ok", "init_fail", "clear"})]_vars

\* A failed turn appended after an earlier exchange.
C7_Witness ==
    /\ lastOp = "ask_fail"
    /\ Len(messages) = 4

\* C8: every accepted question appended its user turn and exactly one
\* assistant turn, for one engine call; the transcript alternates user,
\* assistant from a user turn and has even length.
C8_TurnsAlternate ==
    /\ Len(messages) % 2 = 0
    /\ \A i \in 1..Len(messages) :
         messages[i].role = IF i % 2 = 1 THEN "user" ELSE "assistant"
    /\ lastInvoke.called =>
         /\ Len(messages) = Len(lastInvoke.transcript) + 2
         /\ IsPrefix(lastInvoke.transcript, messages)
         /\ messages[Len(messages) - 1] = UserTurn(lastInvoke.question)
         /\ messages[Len(messages)].content =
              IF lastInvoke.ok THEN lastInvoke.answer
                               ELSE ErrorMsg(lastInvoke.error)

\* Two questions processed, the first one failed.
C8_Witness ==
    /\ lastInvoke.called
    /\ Len(messages) = 4
    /\ ~Answered(messages[2])

\* C9 as stated: the engine keeps no conversation history of its own
\* between calls.
C9_EngineKeepsNoHistory ==
    chain.present => chain.memory = <<>>

\* C9 amended: the engine is stateful. The history of a call's prompt is the
\* chain's own memory, which holds the exchanges this engine answered since
\* it was created or cleared (the answered exchanges of the transcript before
\* the call); a successful call adds its exchange to the memory and a failed
\* call leaves the memory as it was.
C9_PromptHistoryIsEngineMemory ==
    lastInvoke.called =>
        /\ lastInvoke.history = Exchanges(lastInvoke.transcript)
        /\ chain.memory =
             IF lastInvoke.ok
             THEN Append(lastInvoke.history,
                         [question |-> lastInvoke.question,
                          answer |-> lastInvoke.answer])
             ELSE lastInvoke.history

\* A call whose prompt carried an earlier exchange.
C9_Witness ==
    /\ lastInvoke.called
    /\ Len(lastInvoke.history) = 1
    /\ Len(lastInvoke.transcript) = 2

NonIncreasing(q, stored, hits) ==
    \A i, j \in 1..Len(hits) :
        i < j => Similarity(q, stored[hits[i]].content)
                   >= Similarity(q, stored[hits[j]].content)

SourcesAreTheHits ==
    /\ lastInvoke.sources = SourceDocuments(lastInvoke.stored, lastInvoke.hits)
    /\ Answered(messages[Len(messages)])
    /\ messages[Len(messages)].sources = lastInvoke.sources

\* C10 as stated: Min(3, n) results by non-increasing similarity, equal
\* scores by lower chunk ordinal first, stored on the assistant turn.
C10_TiesByOrdinal ==
    (lastInvoke.called /\ lastInvoke.ok) =>
        /\ Len(lastInvoke.hits) = Min(3, Len(lastInvoke.stored))
        /\ NonIncreasing(lastInvoke.question, lastInvoke.stored, lastInvoke.hits)
        /\ \A i, j \in 1..Len(lastInvoke.hits) :
             (/\ i < j
              /\ Similarity(lastInvoke.question,
                            lastInvoke.stored[lastInvoke.hits[i]].content)
                   = Similarity(lastInvoke.question,
                                lastInvoke.stored[lastInvoke.hits[j]].content))
             => lastInvoke.hits[i] < lastInvoke.hits[j]
        /\ SourcesAreTheHits

\* C10 amended: a retrieval returns exactly Min(3, n) distinct stored
\* entries by non-increasing similarity, in whatever order the index gives to
\* entries of equal score; these, in that order, are the sources returned
\* and stored on the assistant turn.
C10_TopKSources ==
    (lastInvoke.called /\ lastInvoke.ok) =>
        /\ Len(lastInvoke.hits) = Min(3, Len(lastInvoke.stored))
        /\ \A i, j \in 1..Len(lastInvoke.hits) :
             i # j => lastInvoke.hits[i] # lastInvoke.hits[j]
        /\ NonIncreasing(lastInvoke.question, lastInvoke.stored, lastInvoke.hits)
        /\ SourcesAreTheHits

\* A retrieval over more than three stored entries whose equally similar
\* results do not come in stored order.
C10_Witness ==
    /\ lastInvoke.called /\ lastInvoke.ok
    /\ Len(lastInvoke.stored) = 4
    /\ Len(lastInvoke.hits) = 3
    /\ lastInvoke.hits[2] > lastInvoke.hits[3]
    /\ Len(messages[Len(messages)].sources) = 3

---------------------------------------------------------------------------
(* Extraction and splitting on their own: one run per behaviour *)

SeqsUpTo(S, n) == UNION {[1..k -> S] : k \in 0..n}

PageTexts == SeqsUpTo(PageChars, MaxPageLen)
Pdfs == SeqsUpTo(PageTexts, MaxPages)
Texts == SeqsUpTo(TextChars, MaxTextLen)

TextInit ==
    /\ store = AbsentStore
    /\ messages = InitialSession.messages
    /\ vector_store = InitialSession.vector_store
    /\ chain = InitialSession.chain
    /\ pdf_processed = InitialSession.pdf_processed
    /\ lastOp = "none"
    /\ lastProcess = NoProcess
    /\ lastInvoke = NoInvoke
    /\ work \in {[NoWork EXCEPT !.phase = "pdf", !.pages = ps] : ps \in Pdfs}
                \cup {[NoWork EXCEPT !.phase = "text", !.text = t] : t \in Texts}

\* Line 89: text = self.extract_text_from_pdf().
ExtractStep ==
    /\ work.phase = "pdf"
    /\ work' = [work EXCEPT !.phase = "extracted",
                            !.text = ExtractTextFromPdf(work.pages)]
    /\ UNCHANGED <<store, messages, vector_store, chain, pdf_processed,
                   lastOp, lastProcess, lastInvoke>>

\* Line 90: documents = self.create_documents(text), on an extracted text
\* or on a text given directly.
SplitStep ==
    /\ work.phase \in {"extracted", "text"}
    /\ work' = [work EXCEPT !.phase = "split", !.chunks = SplitText(work.text)]
    /\ UNCHANGED <<store, messages, vector_store, chain, pdf_processed,
                   lastOp, lastProcess, lastInvoke>>

TextNext == ExtractStep \/ SplitStep

TextSpec == TextInit /\ [][TextNext]_vars

\* The length of the text up to the marker of page i (1-based).
RECURSIVE OffsetOfPage(_, _)
OffsetOfPage(pages, i) ==
    IF i <= 1 THEN 0
    ELSE OffsetOfPage(pages, i - 1) + Len(PageMarker(i - 2)) + Len(pages[i - 1])

MarkerOfPage(i) ==
    <<"\n", "-", "-", "-", " ", "P", "a", "g", "e", " ">>
        \o Decimal(i) \o <<" ", "-", "-", "-", "\n">>

\* C11: the extracted text is, for the pages in order, each page's marker
\* (numbered from 1) followed by that page's text, and nothing else; a
\* document without pages gives the empty text.
C11_ExtractIsMarkersAndPages ==
    work.phase = "extracted" =>
        /\ Len(work.text) = OffsetOfPage(work.pages, Len(work.pages) + 1)
        /\ \A i \in 1..Len(work.pages) :
             LET off == OffsetOfPage(work.pages, i)
                 mk  == MarkerOfPage(i)
             IN  /\ SubSeq(work.text, off + 1, off + Len(mk)) = mk
                 /\ SubSeq(work.text, off + Len(mk) + 1,
                           off + Len(mk) + Len(work.pages[i])) = work.pages[i]
        /\ (work.pages = <<>> => work.text = <<>>)

\* Two pages extracted, the second not empty.
C11_Witness ==
    /\ work.phase = "extracted"
    /\ Len(work.pages) = 2
    /\ Len(work.pages[2]) = 2
    /\ Len(work.text) > 32


IsWhitespace(c) == c \in Whitespace
NotWhitespace(c) == c \notin Whitespace

\* A text without its whitespace characters.
Squeeze(t) == SelectSeq(t, NotWhitespace)

IsSlice(piece, text) ==
    \E lo \in 1..(Len(text) + 1) :
        /\ lo + Len(piece) - 1 <= Len(text)
        /\ SubSeq(text, lo, lo + Len(piece) - 1) = piece

\* Some choice of overlap regions (for each chunk after the first, a prefix
\* of it that repeats the end of the chunk before) makes the non-overlap
\* regions of chunks i.. continue built to exactly text.
RECURSIVE Rebuilds(_, _, _, _)
Rebuilds(chunks, i, built, text) ==
    IF i > Len(chunks) THEN built = text
    ELSE \E o \in 0..(IF i = 1 THEN 0 ELSE Min(Len(chunks[i]), Len(chunks[i - 1]))) :
            /\ o > 0 =>
                 SubSeq(chunks[i], 1, o)
                   = SubSeq(chunks[i - 1], Len(chunks[i - 1]) - o + 1, Len(chunks[i - 1]))
            /\ IsPrefix(built \o SubSeq(chunks[i], o + 1, Len(chunks[i])), text)
            /\ Rebuilds(chunks, i + 1,
                        built \o SubSeq(chunks[i], o + 1, Len(chunks[i])), text)

\* C12 as stated: the non-overlap regions of the chunks, in order,
\* reconstruct the text exactly; the empty text gives no chunk.
C12_ChunksReconstructText ==
    work.phase = "split" =>
        /\ Rebuilds(work.chunks, 1, <<>>, work.text)
        /\ (work.text = <<>> => work.chunks = <<>>)

\* C12 amended: every chunk is a non-empty slice of the text without
\* leading or trailing whitespace, and the non-overlap regions of the
\* chunks, in order, reconstruct the text up to whitespace: no character
\* other than whitespace is dropped, added or reordered. The empty text
\* gives no chunk.
C12_ChunksCoverUpToWhitespace ==
    work.phase = "split" =>
        /\ \A i \in 1..Len(work.chunks) :
             /\ work.chunks[i] # <<>>
             /\ Strip(work.chunks[i]) = work.chunks[i]
             /\ IsSlice(work.chunks[i], work.text)
        /\ Rebuilds([i \in 1..Len(work.chunks) |-> Squeeze(work.chunks[i])],
                    1, <<>>, Squeeze(work.text))
        /\ (work.text = <<>> => work.chunks = <<>>)

\* A text split into chunks that lost whitespace between them.
C12_Witness ==
    /\ work.phase = "split"
    /\ work.pages = <<>>
    /\ Len(work.chunks) = 2
    /\ Len(work.chunks[1]) + Len(work.chunks[2]) < Len(work.text)
    /\ Len(Squeeze(work.text)) = Len(work.text) - 1

---------------------------------------------------------------------------
(* Rebuilds at a location that already holds an index *)

\* C13: a full rebuild at a location that already holds an index leaves
\* there exactly one entry per chunk of the current document and nothing of
\* the earlier index.
C13_RebuildReplacesIndex ==
    (/\ lastProcess.called
     /\ lastProcess.outcome = "ok"
     /\ lastProcess.index.via = "build"
     /\ lastProcess.info.before.exists)
    => lastProcess.after.entries = CreateDocuments(lastProcess.info.doc)

---------------------------------------------------------------------------
(* One long conversation: a session initialized with A.pdf, then questions  *)
(* and Clear Chat History only.                                              *)

\* Longest transcript of the long conversation (turns).
LongTurns == 8
\* A candidate window: the prior turns a prompt may carry.
HistoryWindow == 4

Initialized ==
    ClickInitialize(InitialSession, AbsentStore, "sk-key", "A.pdf",
                    "gpt-3.5-turbo", NoFault)

LongInit ==
    /\ store = Initialized.store
    /\ messages = Initialized.sess.messages
    /\ vector_store = Initialized.sess.vector_store
    /\ chain = Initialized.sess.chain
    /\ pdf_processed = Initialized.sess.pdf_processed
    /\ lastOp = Initialized.op
    /\ lastProcess = ProcessRecord(Initialized.process)
    /\ lastInvoke = NoInvoke
    /\ work = NoWork

AskLong == AskWithin(LongTurns)

LongNext == AskLong \/ ClearChat

LongSpec == LongInit /\ [][LongNext]_vars

\* C14 as stated, for the window HistoryWindow: the prior turns supplied to
\* the generation call never exceed the window.
C14_HistoryWithinWindow ==
    lastInvoke.called => 2 * Len(lastInvoke.history) <= HistoryWindow

\* What the code does instead: the history supplied to a call is the chain's
\* whole memory, and an answered question adds its exchange to the memory
\* without dropping an older one, so the prior turns supplied grow by two
\* with every answered question.
HistoryIsWholeMemory ==
    [][lastOp' \in {"ask_ok", "ask_fail"} =>
         /\ lastInvoke'.history = chain.memory
         /\ lastInvoke'.ok =>
              /\ Len(chain'.memory) = Len(chain.memory) + 1
              /\ IsPrefix(chain.memory, chain'.memory)]_vars

---------------------------------------------------------------------------
(* Session state across Initialize/Reload *)

\* C15: whenever the session is ready, the active index and the engine are
\* both present; and the engine is never invoked while absent.
C15_ReadyImpliesIndexAndEngine ==
    /\ pdf_processed => (vector_store.present /\ chain.present)
    /\ lastInvoke.called => lastInvoke.error # "AttributeError"

\* A question was put to the engine of a ready session.
C15_Witness ==
    /\ pdf_processed
    /\ lastInvoke.called
    /\ chain.present
    /\ vector_store.present

\* C16: an Initialize/Reload that fails validation (empty API key or missing
\* document) leaves transcript, ready flag, active index, engine and the
\* persisted location unchanged, and does not run the pipeline.
C16_InvalidInitializeChangesNothing ==
    [][lastOp' = "init_invalid" =>
         /\ UNCHANGED <<messages, vector_store, chain, pdf_processed, store>>
         /\ ~lastProcess'.called]_vars

\* An invalid Initialize/Reload on a ready session with a transcript.
C16_Witness ==
    /\ lastOp = "init_invalid"
    /\ pdf_processed
    /\ Len(messages) > 0
    /\ ~lastProcess.called

\* C17: an Initialize/Reload that passes validation and then fails ends not
\* ready with an empty transcript, with the index and engine handles as they
\* were; while not ready no question is accepted, and only a successful
\* Initialize/Reload makes the session ready.
C17_FailedInitializeEndsNotReady ==
    [][/\ lastOp' = "init_fail" =>
            /\ ~pdf_processed'
            /\ messages' = <<>>
            /\ UNCHANGED <<vector_store, chain>>
            /\ lastProcess'.called
       /\ ~pdf_processed => lastOp' \notin {"ask_ok", "ask_fail"}
       /\ (~pdf_processed /\ pdf_processed') => lastOp' = "init_ok"]_vars

\* A failed Initialize/Reload on a session that was ready and had answered a
\* question: the old handles, with the old memory, are still stored.
C17_Witness ==
    /\ lastOp = "init_fail"
    /\ ~pdf_processed
    /\ vector_store.present
    /\ chain.present
    /\ Len(chain.memory) > 0

\* C18: whenever the session is ready, the engine's memory is exactly the
\* sequence of answered exchanges of the transcript, in order.
C18_MemoryIsAnsweredExchanges ==
    pdf_processed => chain.memory = Exchanges(messages)

\* A ready session with one failed and one answered question.
C18_Witness ==
    /\ pdf_processed
    /\ Len(messages) = 4
    /\ Len(chain.memory) = 1
    /\ \E i \in 1..Len(messages) :
          ~Answered(messages[i]) /\ messages[i].role = "assistant"

====
